---- MODULE Spec2Model ----
(***************************************************************************)
(* The two workflows of samples/RAG-sample/src/agents:                     *)
(*   quiz-generator-RAG.py      prepare_input -> invoke_researcher ->      *)
(*                              create_quiz -> check_quiz_creation ->      *)
(*                              {invoke_researcher, return_quiz}           *)
(*   researcher-and-uploader.py prepare_input -> researcher ->             *)
(*                              upload_to_bucket                           *)
(* The quiz workflow suspends in invoke_researcher (interrupt) while the   *)
(* researcher workflow runs as the invoked process, and is resumed with    *)
(* that process's output.                                                  *)
(***************************************************************************)
EXTENDS Integers, Sequences, FiniteSets, TLC

(* Python's Optional[T]: None is the empty tuple, a present v is <<v>>. *)
None == <<>>
Some(v) == <<v>>

(* dict.get(key, None) on a state whose optional keys hold Optional values. *)
Get(d, k) == IF k \in DOMAIN d THEN d[k] ELSE None

(* f"{x}" of an Optional[str]: str(None) is the text "None". *)
Fmt(o) == IF o = None THEN "None" ELSE o[1]

(* ---------------- bounds of the model ---------------- *)
MaxInvocations == 3
MaxTime == 2

(* ---------------- program constants ---------------- *)
Retries == 5
SleepSeconds == 5
DifficultyMin == 0
DifficultyMax == 10

(* ---------------- inputs ---------------- *)
Categories == {"space", "art"}
Topics == {"black holes"}
Buckets == {"b", "b2"}
Folders == {None, Some("f")}
Indexes == {"i"}
Times == 1..MaxTime
Findings == {"raw findings 1", "raw findings 2"}
DocSets == {<<>>, <<"doc">>}

GraphInput ==
  [general_category : Categories, quiz_topic : Topics, bucket_name : Buckets,
   index_name : Indexes, bucket_folder : Folders]

(* ---------------- messages ---------------- *)
HumanMessage(c) == [type |-> "human", content |-> c]
AIMessage(c) == [type |-> "ai", content |-> c]

(* MessagesState.messages is reduced with add_messages: an update is       *)
(* appended to the conversation (every message of an update is new here).  *)
add_messages(left, right) == left \o right

(* A node's returned update merged into the state: keys of the update      *)
(* replace the state's, except messages, which goes through its reducer.   *)
Update(st, upd) ==
  [k \in DOMAIN st \cup DOMAIN upd |->
     IF k \notin DOMAIN upd THEN st[k]
     ELSE IF k = "messages" /\ k \in DOMAIN st THEN add_messages(st[k], upd[k])
     ELSE upd[k]]

(* ---------------- the generation result and its parser ---------------- *)
QuizItem(q, d, a) == [question |-> q, difficulty |-> d, answer |-> a]
Quiz3 == [quiz_items |-> <<QuizItem("q1", 2, "a1"), QuizItem("q2", 5, "a2"),
                           QuizItem("q3", 10, "a3")>>]
QuizOutOfRange == [quiz_items |-> <<QuizItem("q1", 12, "a1")>>]
GapText == "need data about event horizons"

(* What llm.invoke returns as result.content: text that is no JSON object  *)
(* of the schema, or an object with the two fields.                        *)
Malformed == [json |-> FALSE]
LLMContents ==
  {Malformed} \cup
  [json : {TRUE}, quiz : {None, Some(Quiz3), Some(QuizOutOfRange)},
   additional_info : {None, Some("false"), Some(GapText)}]

(* QuizItem.difficulty: Field(ge=0.0, le=1.0), in tenths. *)
QuizItemValid(it) == it.difficulty >= DifficultyMin /\ it.difficulty <= DifficultyMax

QuizFieldValid(v) ==
  v = None \/ \A i \in 1..Len(v[1].quiz_items) : QuizItemValid(v[1].quiz_items[i])

(* @validator("quiz", always=True) check_quiz(cls, v, values): TRUE when   *)
(* it returns v, FALSE when it raises.  values holds the fields validated  *)
(* before quiz.                                                            *)
check_quiz(v, values) == ~(Get(values, "additional_info") = Some("false") /\ v = None)

(* The fields are validated in declaration order, quiz first, so the       *)
(* validator of quiz runs before additional_info is in values.             *)
ValuesBeforeQuiz(content) == [k \in {} |-> None]

ParseFailure == [ok |-> FALSE]

(* output_parser.parse(result.content) *)
Parse(content) ==
  IF ~content.json THEN ParseFailure
  ELSE IF ~QuizFieldValid(content.quiz) THEN ParseFailure
  ELSE IF ~check_quiz(content.quiz, ValuesBeforeQuiz(content)) THEN ParseFailure
  ELSE [ok |-> TRUE, quiz |-> content.quiz, additional_info |-> content.additional_info]

(* ---------------- state ---------------- *)
VARIABLES
  input,          \* the GraphInput the quiz workflow was entered with
  state,          \* the quiz workflow's GraphState (a dict: keys may be absent)
  pc,             \* the quiz workflow's position
  inplace_kept,   \* how many of invoke_researcher's in-place appends reach the channel
  task,           \* the InvokeProcess the workflow is suspended on, or None
  no_of_retries,  \* create_quiz's local
  context_data,   \* create_quiz's local: None or Some(documents)
  ingests,        \* ingest_data calls of this run, one per execution of create_quiz
  retrievals,     \* outcomes of the retrieval calls of this execution of create_quiz
  sleeps,         \* the time.sleep calls of this execution of create_quiz
  llm_content,    \* result.content of this execution's llm.invoke, or None
  error,          \* the exception raised to the workflow caller, or None
  output,         \* the GraphOutput returned, or None
  invocations,    \* researcher sub-tasks requested in this run
  outstanding,    \* researcher sub-tasks requested and not yet resumed from
  gap_reports,    \* generation attempts that parsed with additional_info # "false"
  parse_failures, \* generation attempts whose output the parser rejected
  r_pc,           \* the researcher workflow's position
  r_state,        \* the researcher workflow's GraphState
  uploads,        \* upload_from_memory calls of the researcher run
  now             \* int(time.time()) as read by upload_to_bucket

vars == <<input, state, pc, inplace_kept, task, no_of_retries, context_data, ingests,
          retrievals, sleeps, llm_content, error, output, invocations, outstanding,
          gap_reports, parse_failures, r_pc, r_state, uploads, now>>

quizLocals == <<no_of_retries, context_data, ingests, retrievals, sleeps, llm_content>>
counters == <<invocations, outstanding, gap_reports, parse_failures>>
researcherVars == <<r_pc, r_state, uploads, now>>

NoState == [k \in {} |-> None]

(* START -> prepare_input: the input's fields are the first values of the  *)
(* state; messages starts as the empty conversation.                       *)
Init ==
  /\ input \in GraphInput
  /\ state = Update([messages |-> <<>>], input)
  /\ pc = "prepare_input"
  /\ inplace_kept \in 0..2
  /\ task = None
  /\ no_of_retries = 0
  /\ context_data = None
  /\ ingests = 0
  /\ retrievals = <<>>
  /\ sleeps = <<>>
  /\ llm_content = None
  /\ error = None
  /\ output = None
  /\ invocations = 0
  /\ outstanding = 0
  /\ gap_reports = 0
  /\ parse_failures = 0
  /\ r_pc = "idle"
  /\ r_state = NoState
  /\ uploads = <<>>
  /\ now = 0

(* ---------------- quiz workflow ---------------- *)

(* additional_info initialised with None instead of the sentinel. *)
prepare_input_NoSentinel(st) ==
  [quiz_topic |-> st.quiz_topic, bucket_name |-> st.bucket_name,
   index_name |-> st.index_name, general_category |-> st.general_category,
   additional_info |-> None]

(* prepare_input(state: GraphInput) -> GraphState *)
prepare_input(st) ==
  [quiz_topic |-> st.quiz_topic, bucket_name |-> st.bucket_name,
   index_name |-> st.index_name, general_category |-> st.general_category,
   additional_info |-> Some("false")]

PrepareInput ==
  /\ pc = "prepare_input"
  /\ state' = Update(state, prepare_input(state))
  /\ pc' = "invoke_researcher"
  /\ UNCHANGED <<input, inplace_kept, task, error, output>>
  /\ UNCHANGED <<quizLocals, counters, researcherVars>>

(* The bootstrap request sent whatever additional_info holds. *)
ResearchRequest_Category(st) == HumanMessage("Fetch data about " \o st.general_category)

(* invoke_researcher, lines 92-95: the message appended to state["messages"]. *)
ResearchRequest(st) ==
  IF Get(st, "additional_info") # Some("false")
  THEN HumanMessage(Fmt(st.additional_info))
  ELSE HumanMessage("Fetch data about " \o st.general_category)

(* The folder not forwarded to the process. *)
InvokeProcess_NoFolder(st, messages) ==
  [name |-> "researcher-and-uploader-agent",
   input_arguments |->
     [messages |-> messages, bucket_name |-> st.bucket_name, bucket_folder |-> None]]

(* invoke_researcher, lines 96-104: the InvokeProcess handed to interrupt. *)
InvokeProcess(st, messages) ==
  [name |-> "researcher-and-uploader-agent",
   input_arguments |->
     [messages |-> messages, bucket_name |-> st.bucket_name,
      bucket_folder |-> Get(st, "bucket_folder")]]

(* The process started without suspending on it: the node goes on to     *)
(* create_quiz while the process runs.                                     *)
InvokeResearcherInterrupt_NoSuspend ==
  /\ pc = "invoke_researcher"
  /\ invocations < MaxInvocations
  /\ r_pc \in {"idle", "END"}
  /\ task' = Some(InvokeProcess(state, Append(state.messages, ResearchRequest(state))))
  /\ pc' = "create_quiz"
  /\ invocations' = invocations + 1
  /\ outstanding' = outstanding + 1
  /\ r_pc' = "START"
  /\ r_state' = NoState
  /\ uploads' = <<>>
  /\ UNCHANGED <<input, state, inplace_kept, error, output, quizLocals, gap_reports,
                 parse_failures, now>>

(* invoke_researcher up to interrupt(): the node raises the interrupt and  *)
(* returns no update; the named process is started with the arguments.     *)
(* The append of line 93/95 is made on the list the node was handed, not   *)
(* through an update: whether the stored conversation sees it depends on   *)
(* the host (inplace_kept = 2: also the append of this first execution).   *)
InvokeResearcherInterrupt ==
  /\ pc = "invoke_researcher"
  /\ invocations < MaxInvocations
  /\ LET messages == Append(state.messages, ResearchRequest(state))
     IN /\ task' = Some(InvokeProcess(state, messages))
        /\ state' = IF inplace_kept = 2 THEN [state EXCEPT !.messages = messages]
                    ELSE state
  /\ pc' = "interrupted"
  /\ invocations' = invocations + 1
  /\ outstanding' = outstanding + 1
  /\ r_pc' = "START"
  /\ r_state' = NoState
  /\ uploads' = <<>>
  /\ UNCHANGED <<input, inplace_kept, error, output, quizLocals, gap_reports,
                 parse_failures, now>>

(* invoke_researcher resumed: the node runs again from its first line,     *)
(* interrupt() now returns the process's output, and the node returns its  *)
(* update (lines 105-109).  The edge invoke_researcher -> create_quiz.     *)
InvokeResearcherResume ==
  /\ pc = "interrupted"
  /\ r_pc = "END"
  /\ LET messages == Append(state.messages, ResearchRequest(state))
         seen == IF inplace_kept >= 1 THEN [state EXCEPT !.messages = messages]
                 ELSE state
         agent_response == [messages |-> r_state.messages]
         last == agent_response.messages[Len(agent_response.messages)]
     IN state' = Update(seen,
                        [messages |-> <<last,
                            HumanMessage("create a quiz about " \o state.quiz_topic)>>])
  /\ pc' = "create_quiz"
  /\ task' = None
  /\ r_pc' = "idle"
  /\ r_state' = NoState
  /\ uploads' = <<>>
  /\ now' = 0
  /\ outstanding' = outstanding - 1
  /\ UNCHANGED <<input, inplace_kept, error, output, quizLocals, invocations,
                 gap_reports, parse_failures>>

(* The attempt budget kept across executions instead of being a local    *)
(* set on entry.                                                           *)
CreateQuizBegin_StaleBudget ==
  /\ pc = "create_quiz"
  /\ no_of_retries' = IF ingests = 0 THEN Retries ELSE no_of_retries
  /\ context_data' = None
  /\ ingests' = ingests + 1
  /\ retrievals' = <<>>
  /\ sleeps' = <<>>
  /\ llm_content' = None
  /\ pc' = IF no_of_retries' # 0 THEN "retry_loop" ELSE "after_loop"
  /\ UNCHANGED <<input, state, inplace_kept, task, error, output, counters,
                 researcherVars>>

(* create_quiz, lines 113-116 *)
CreateQuizBegin ==
  /\ pc = "create_quiz"
  /\ no_of_retries' = Retries
  /\ context_data' = None
  /\ ingests' = ingests + 1
  /\ retrievals' = <<>>
  /\ sleeps' = <<>>
  /\ llm_content' = None
  /\ pc' = "retry_loop"
  /\ UNCHANGED <<input, state, inplace_kept, task, error, output, counters,
                 researcherVars>>

(* The loop condition written as no_of_retries >= 0: one attempt too many. *)
LoopHead_OneMore(n) == IF n >= 0 THEN "retry_loop" ELSE "after_loop"

(* while no_of_retries != 0, evaluated after an iteration that did not break *)
LoopHead(n) == IF n # 0 THEN "retry_loop" ELSE "after_loop"

(* lines 119-124: the retrieval returns documents; break *)
RetrieveOk(docs) ==
  /\ pc = "retry_loop"
  /\ retrievals' = Append(retrievals, [kind |-> "ok", docs |-> docs])
  /\ context_data' = Some(docs)
  /\ pc' = "after_loop"
  /\ UNCHANGED <<input, state, inplace_kept, task, no_of_retries, ingests, sleeps,
                 llm_content, error, output, counters, researcherVars>>

(* The wait skipped when no attempt is left. *)
RetrieveIngesting_NoLastWait ==
  /\ pc = "retry_loop"
  /\ retrievals' = Append(retrievals, [kind |-> "ingesting"])
  /\ no_of_retries' = no_of_retries - 1
  /\ sleeps' = IF no_of_retries' # 0 THEN Append(sleeps, SleepSeconds) ELSE sleeps
  /\ pc' = IF no_of_retries' # 0 THEN "retry_loop" ELSE "after_loop"
  /\ UNCHANGED <<input, state, inplace_kept, task, context_data, ingests,
                 llm_content, error, output, counters, researcherVars>>

(* lines 125-129: IngestionInProgressException *)
RetrieveIngesting ==
  /\ pc = "retry_loop"
  /\ retrievals' = Append(retrievals, [kind |-> "ingesting"])
  /\ no_of_retries' = no_of_retries - 1
  /\ sleeps' = Append(sleeps, SleepSeconds)
  /\ pc' = LoopHead(no_of_retries')
  /\ UNCHANGED <<input, state, inplace_kept, task, context_data, ingests,
                 llm_content, error, output, counters, researcherVars>>

(* The handler written as a bare except: the failure is retried like an   *)
(* ingestion in progress.                                                  *)
RetrieveOtherFailure_Caught ==
  /\ pc = "retry_loop"
  /\ retrievals' = Append(retrievals, [kind |-> "error"])
  /\ no_of_retries' = no_of_retries - 1
  /\ sleeps' = Append(sleeps, SleepSeconds)
  /\ pc' = IF no_of_retries' # 0 THEN "retry_loop" ELSE "after_loop"
  /\ UNCHANGED <<input, state, inplace_kept, task, context_data, ingests,
                 llm_content, error, output, counters, researcherVars>>

(* any other exception of the retrieval is not caught *)
RetrieveOtherFailure ==
  /\ pc = "retry_loop"
  /\ retrievals' = Append(retrievals, [kind |-> "error"])
  /\ error' = Some("retrieval failure")
  /\ pc' = "raised"
  /\ UNCHANGED <<input, state, inplace_kept, task, no_of_retries, context_data,
                 ingests, sleeps, llm_content, output, counters, researcherVars>>

(* Python truth value of context_data: None and the empty list are false. *)
Truthy(c) == c # None /\ c[1] # <<>>

(* lines 130-131 *)
RaiseTooLong ==
  /\ pc = "after_loop"
  /\ ~Truthy(context_data)
  /\ error' = Some("Ingestion is taking too long!")
  /\ pc' = "raised"
  /\ UNCHANGED <<input, state, inplace_kept, task, quizLocals, output, counters,
                 researcherVars>>

(* The test of line 149 inverted: the quiz is dropped when it is final. *)
QuizUpdate_Inverted(llm_response) ==
  [quiz |-> IF llm_response.additional_info # Some("false") THEN llm_response.quiz
            ELSE None,
   additional_info |-> llm_response.additional_info]

(* lines 147-152: the update create_quiz returns for a parsed response *)
QuizUpdate(llm_response) ==
  [quiz |-> IF llm_response.additional_info = Some("false") THEN llm_response.quiz
            ELSE None,
   additional_info |-> llm_response.additional_info]

(* The loop left whenever the result carries no quiz request at all: a   *)
(* null additional_info treated like the sentinel.                         *)
check_quiz_creation_NullIsDone(st) ==
  IF st.additional_info \notin {Some("false"), None} THEN "invoke_researcher"
  ELSE "return_quiz"

(* check_quiz_creation, lines 157-162 *)
check_quiz_creation(st) ==
  IF st.additional_info # Some("false") THEN "invoke_researcher" ELSE "return_quiz"

(* lines 135-155 and the conditional edge of line 179.  A parsed response  *)
(* updates the state; a rejected one returns Command(goto=END), which      *)
(* updates nothing and names no node to go to.  The conditional edge is    *)
(* attached to create_quiz itself and is evaluated on the state after      *)
(* every completion of the node, also this one.                            *)
Generate(content) ==
  /\ pc = "after_loop"
  /\ Truthy(context_data)
  /\ llm_content' = Some(content)
  /\ LET llm_response == Parse(content)
     IN /\ state' = IF llm_response.ok THEN Update(state, QuizUpdate(llm_response))
                    ELSE state
        /\ gap_reports' = IF llm_response.ok /\ llm_response.additional_info # Some("false")
                          THEN gap_reports + 1 ELSE gap_reports
        /\ parse_failures' = IF llm_response.ok THEN parse_failures
                             ELSE parse_failures + 1
  /\ pc' = check_quiz_creation(state')
  /\ UNCHANGED <<input, inplace_kept, task, no_of_retries, context_data, ingests,
                 retrievals, sleeps, error, output, invocations, outstanding,
                 researcherVars>>

(* GraphOutput(quiz=...): quiz is a required Quiz *)
GraphOutput(q) == [quiz |-> q]

(* return_quiz, lines 164-167, then the edge return_quiz -> END.           *)
(* state["quiz"] raises when the key was never written, and GraphOutput    *)
(* rejects None.                                                           *)
ReturnQuiz ==
  /\ pc = "return_quiz"
  /\ IF "quiz" \in DOMAIN state /\ state.quiz # None
     THEN /\ output' = Some(GraphOutput(state.quiz[1]))
          /\ pc' = "END"
          /\ error' = error
     ELSE /\ output' = output
          /\ pc' = "raised"
          /\ error' = Some("return_quiz: no quiz")
  /\ UNCHANGED <<input, state, inplace_kept, task, quizLocals, counters, researcherVars>>

(* ---------------- researcher workflow ---------------- *)

(* prepare_input(state: GraphInput) -> GraphState *)
r_prepare_input(st) ==
  [messages |-> st.messages, web_results |-> "", bucket_name |-> st.bucket_name,
   bucket_folder |-> Get(st, "bucket_folder")]

(* START -> prepare_input.  The messages prepare_input returns are the     *)
(* input's own messages, which the reducer keeps once.                     *)
ResearcherPrepareInput ==
  /\ r_pc = "START"
  /\ r_state' = r_prepare_input(task[1].input_arguments)
  /\ r_pc' = "researcher"
  /\ UNCHANGED <<input, state, pc, inplace_kept, task, error, output, quizLocals,
                 counters, uploads, now>>

(* research_node: web_results is the content of the agent's last message *)
ResearchNode(findings) ==
  /\ r_pc = "researcher"
  /\ r_state' = Update(r_state, [web_results |-> findings])
  /\ r_pc' = "upload_to_bucket"
  /\ UNCHANGED <<input, state, pc, inplace_kept, task, error, output, quizLocals,
                 counters, uploads, now>>

(* The body taken from the conversation instead of web_results. *)
UploadCall_Conversation(st, current_timestamp) ==
  [bucket_name |-> st.bucket_name,
   blob_file_path |-> ToString(current_timestamp) \o ".txt",
   content_type |-> "application/txt",
   content |-> st.messages[Len(st.messages)].content]

(* the upload_from_memory call of lines 49-53 *)
UploadCall(st, current_timestamp) ==
  [bucket_name |-> st.bucket_name,
   blob_file_path |-> ToString(current_timestamp) \o ".txt",
   content_type |-> "application/txt",
   content |-> st.web_results]

AckText == "Relevant information uploaded to bucket."

(* upload_to_bucket's return value, line 54 *)
upload_result == [messages |-> <<AIMessage(AckText)>>]

(* upload_to_bucket, then the edge to END: the workflow's output is the    *)
(* messages of its state.                                                  *)
UploadToBucket(current_timestamp) ==
  /\ r_pc = "upload_to_bucket"
  /\ now' = current_timestamp
  /\ uploads' = Append(uploads, UploadCall(r_state, current_timestamp))
  /\ r_state' = Update(r_state, upload_result)
  /\ r_pc' = "END"
  /\ UNCHANGED <<input, state, pc, inplace_kept, task, error, output, quizLocals,
                 counters>>

(* ---------------- specification ---------------- *)
Next ==
  \/ PrepareInput
  \/ InvokeResearcherInterrupt
  \/ InvokeResearcherResume
  \/ CreateQuizBegin
  \/ \E docs \in DocSets : RetrieveOk(docs)
  \/ RetrieveIngesting
  \/ RetrieveOtherFailure
  \/ RaiseTooLong
  \/ \E content \in LLMContents : Generate(content)
  \/ ReturnQuiz
  \/ ResearcherPrepareInput
  \/ \E findings \in Findings : ResearchNode(findings)
  \/ \E current_timestamp \in Times : UploadToBucket(current_timestamp)

Spec == Init /\ [][Next]_vars

(* ---------------- properties ---------------- *)
Last(s) == s[Len(s)]

AllIngesting(s, n) == \A i \in 1..n : s[i].kind = "ingesting"

(* In this execution of create_quiz the retrieval raised ingestion in      *)
(* progress exactly n times and then returned.                             *)
RecoveredAfter(n) ==
  /\ Len(retrievals) = n + 1
  /\ AllIngesting(retrievals, n)
  /\ retrievals[n + 1].kind = "ok"

(* create_quiz ended by raising to the workflow caller. *)
CreateQuizRaised ==
  /\ pc = "raised"
  /\ error \in {Some("Ingestion is taking too long!"), Some("retrieval failure")}

(* C1: when the retrieval raises ingestion in progress exactly N times,    *)
(* 0 <= N <= 4, and then succeeds with a result, the retry loop exits with *)
(* that result after exactly N waits of 5 units and N+1 retrieval calls,   *)
(* and no error surfaces to the workflow caller.                           *)
C1_RetryAbsorbsTransient ==
  \A n \in 0..(Retries - 1) :
    RecoveredAfter(n) =>
      /\ context_data = Some(retrievals[n + 1].docs)
      /\ sleeps = [i \in 1..n |-> SleepSeconds]
      /\ ~CreateQuizRaised

(* The retrieval raised ingestion in progress on each of its first 5 calls. *)
ExhaustedRetries == Len(retrievals) >= Retries /\ AllIngesting(retrievals, Retries)

(* C2: when the retrieval raises ingestion in progress on each of its      *)
(* first 5 calls, exactly 5 retrieval calls are made, never a 6th, the     *)
(* error "Ingestion is taking too long!" is raised to the caller and the   *)
(* generation call is never made in that execution.                        *)
C2_FiveAttemptsThenFatal ==
  ExhaustedRetries =>
    /\ Len(retrievals) = Retries
    /\ llm_content = None
    /\ ~Truthy(context_data)
    /\ pc \in {"after_loop", "raised"}
    /\ pc = "raised" => error = Some("Ingestion is taking too long!")
    /\ pc = "after_loop" => error = None

C2_Witness ==
  /\ ExhaustedRetries
  /\ pc = "raised"
  /\ error = Some("Ingestion is taking too long!")

(* C3: a retrieval failure other than ingestion in progress propagates out *)
(* of create_quiz at once: the step that sees it performs no wait and does *)
(* not decrement the attempt counter, and after it no further retrieval    *)
(* call and no generation call is made.                                    *)
C3_OtherFailurePropagates ==
  [][/\ (retrievals' # retrievals /\ retrievals' # <<>> /\ Last(retrievals').kind = "error")
        => /\ pc' = "raised"
           /\ error' = Some("retrieval failure")
           /\ sleeps' = sleeps
           /\ no_of_retries' = no_of_retries
           /\ llm_content' = None
     /\ (retrievals # <<>> /\ Last(retrievals).kind = "error")
        => /\ retrievals' = retrievals
           /\ llm_content' = llm_content
           /\ sleeps' = sleeps
           /\ pc' = pc]_vars

C3_Witness ==
  /\ Len(retrievals) = 3
  /\ AllIngesting(retrievals, 2)
  /\ Last(retrievals).kind = "error"
  /\ pc = "raised"
  /\ no_of_retries = Retries - 2
  /\ Len(sleeps) = 2

(* This execution's generation output was parsed and its additional_info   *)
(* is not the sentinel "false".                                            *)
GapReported ==
  /\ llm_content # None
  /\ Parse(llm_content[1]).ok
  /\ llm_content[1].additional_info # Some("false")

(* C4: for every parsed generation result whose additional_info is not the *)
(* sentinel "false", with or without a quiz, check_quiz_creation routes to *)
(* invoke_researcher, never to return_quiz, and the request added to the   *)
(* conversation handed to the researcher is that additional_info text      *)
(* unchanged (a null additional_info is sent as its rendering "None").     *)
C4_GapRoutesToResearcher ==
  GapReported =>
    LET info == llm_content[1].additional_info
    IN /\ pc \in {"invoke_researcher", "interrupted", "create_quiz"}
       /\ output = None
       /\ state.additional_info = info
       /\ pc = "interrupted" =>
            LET request == Last(task[1].input_arguments.messages)
            IN /\ request.type = "human"
               /\ info # None => request.content = info[1]
               /\ info = None => request.content = "None"

C4_Witness ==
  /\ GapReported
  /\ llm_content[1].quiz = Some(Quiz3)
  /\ llm_content[1].additional_info = Some(GapText)
  /\ pc = "interrupted"
  /\ Last(task[1].input_arguments.messages) = HumanMessage(GapText)

(* This execution's generation output was parsed, its additional_info is   *)
(* the sentinel "false" and it carries a quiz.                             *)
SufficientReported ==
  /\ llm_content # None
  /\ Parse(llm_content[1]).ok
  /\ llm_content[1].additional_info = Some("false")
  /\ llm_content[1].quiz # None

(* C5: for every parsed generation result with additional_info "false" and *)
(* a quiz, create_quiz stores that quiz, check_quiz_creation routes to     *)
(* return_quiz, the output quiz is the generated quiz (same items, same    *)
(* order) and the workflow ends without another researcher invocation.     *)
C5_SufficientReturnsQuiz ==
  SufficientReported =>
    /\ state.quiz = llm_content[1].quiz
    /\ state.additional_info = Some("false")
    /\ pc \in {"return_quiz", "END"}
    /\ task = None
    /\ r_pc = "idle"
    /\ error = None
    /\ pc = "return_quiz" => output = None
    /\ pc = "END" => output = Some([quiz |-> llm_content[1].quiz[1]])

C5_Witness ==
  /\ SufficientReported
  /\ pc = "END"
  /\ invocations = 2
  /\ output # None
  /\ output[1].quiz.quiz_items = Quiz3.quiz_items
  /\ Len(output[1].quiz.quiz_items) = 3

(* C6: when the parser rejects the generation output, the quiz workflow    *)
(* terminates with no quiz and does not retry: after the parse failure no  *)
(* researcher sub-task is invoked and no retrieval or generation call is   *)
(* made in that run, whatever additional_info held before the attempt.     *)
C6_ParseFailureStops ==
  parse_failures > 0 =>
    /\ output = None
    /\ task = None
    /\ pc \notin {"interrupted", "create_quiz", "retry_loop", "after_loop"}

(* The request of the bootstrap research call. *)
BootstrapRequest == HumanMessage("Fetch data about " \o input.general_category)

(* C7: in every run the researcher sub-task is invoked and has resumed     *)
(* before the first execution of create_quiz starts, and the request of    *)
(* that first invocation is "Fetch data about <general_category>".         *)
C7_BootstrapResearchFirst ==
  /\ ingests > 0 => invocations >= 1
  /\ ingests = 0 =>
       /\ pc \in {"prepare_input", "invoke_researcher", "interrupted", "create_quiz"}
       /\ retrievals = <<>>
       /\ llm_content = None
       /\ pc \in {"prepare_input", "invoke_researcher"} => invocations = 0
       /\ pc = "interrupted" =>
            /\ invocations = 1
            /\ task[1].input_arguments.messages = <<BootstrapRequest>>
       /\ pc = "create_quiz" =>
            /\ invocations = 1
            /\ task = None
            /\ r_pc = "idle"
            /\ \E i \in 1..Len(state.messages) : state.messages[i] = AIMessage(AckText)

C7_Witness ==
  /\ ingests = 0
  /\ pc = "create_quiz"
  /\ invocations = 1
  /\ input.general_category = "space"

(* C8: in a run that ends by returning a quiz, the number of researcher    *)
(* invocations is 1 plus the number of generation attempts that reported a *)
(* gap; when the first attempt is sufficient the researcher is invoked     *)
(* exactly once and the output quiz has the items the generator produced.  *)
C8_InvocationsCountGaps ==
  (pc = "END" /\ output # None) =>
    /\ invocations = 1 + gap_reports
    /\ ingests = 1 =>
         /\ invocations = 1
         /\ output[1].quiz = llm_content[1].quiz[1]

(* C9: in the researcher workflow upload_to_bucket makes exactly one       *)
(* upload call, with path "<T>.txt", content type "application/txt" and    *)
(* the findings F as body, and only after research_node has completed; the *)
(* returned conversation is exactly one acknowledgment message and does    *)
(* not contain F.                                                          *)
UploadedFindings ==
  /\ r_state.web_results \in Findings
  /\ Len(uploads) = 1
  /\ uploads[1].blob_file_path = ToString(now) \o ".txt"
  /\ uploads[1].content_type = "application/txt"
  /\ uploads[1].content = r_state.web_results

C9_SingleAcknowledgment ==
  /\ uploads # <<>> => r_pc = "END"
  /\ r_pc = "END" =>
       /\ UploadedFindings
       /\ r_state.messages = <<AIMessage(AckText)>>

(* C9 as amended: the returned conversation is the conversation the        *)
(* workflow was invoked with followed by exactly one acknowledgment        *)
(* message, and no message of it carries F.                                *)
C9_AcknowledgmentAppended ==
  /\ uploads # <<>> => r_pc = "END"
  /\ r_pc = "END" =>
       /\ UploadedFindings
       /\ r_state.messages =
            Append(task[1].input_arguments.messages, AIMessage(AckText))
       /\ \A i \in 1..Len(r_state.messages) :
            r_state.messages[i].content # r_state.web_results

C9_Witness ==
  /\ r_pc = "END"
  /\ now = MaxTime
  /\ uploads = <<[bucket_name |-> input.bucket_name,
                  blob_file_path |-> ToString(MaxTime) \o ".txt",
                  content_type |-> "application/txt",
                  content |-> "raw findings 2"]>>
  /\ Last(r_state.messages) = AIMessage(AckText)

(* C10: every researcher sub-task invocation names the process             *)
(* "researcher-and-uploader-agent" and carries the arguments messages,     *)
(* bucket_name and bucket_folder, the last two equal to the bucketName and *)
(* the optional bucketFolder supplied at workflow entry.                   *)
C10_InvocationArguments ==
  task # None =>
    /\ task[1].name = "researcher-and-uploader-agent"
    /\ DOMAIN task[1].input_arguments = {"messages", "bucket_name", "bucket_folder"}
    /\ task[1].input_arguments.bucket_name = input.bucket_name
    /\ task[1].input_arguments.bucket_folder = input.bucket_folder

C10_Witness ==
  /\ task # None
  /\ invocations = 2
  /\ input.bucket_folder = Some("f")
  /\ task[1].input_arguments.bucket_folder = Some("f")
  /\ task[1].input_arguments.bucket_name = "b2"

(* C11: within one run at most one researcher sub-task is outstanding: a   *)
(* new sub-task is requested only after the previous one has resumed the   *)
(* caller, and no retrieval or generation step of the run executes while a *)
(* sub-task is outstanding.                                                *)
C11_OneOutstandingSubTask ==
  /\ [](/\ outstanding <= 1
        /\ outstanding = 1 <=> task # None
        /\ outstanding = 1 <=> pc = "interrupted"
        /\ r_pc # "idle" => outstanding = 1)
  /\ [][/\ invocations' # invocations => (outstanding = 0 /\ r_pc = "idle")
        /\ outstanding > 0 =>
             /\ ingests' = ingests
             /\ retrievals' = retrievals
             /\ sleeps' = sleeps
             /\ llm_content' = llm_content]_vars

C11_Witness ==
  /\ outstanding = 1
  /\ invocations = 2
  /\ r_pc = "upload_to_bucket"
  /\ pc = "interrupted"
  /\ ingests = 1

(* This execution's generation output was accepted by the parser. *)
Accepted == llm_content # None /\ Parse(llm_content[1]).ok

(* C12: every generation result accepted by the parser has exactly one     *)
(* variant populated: a quiz is present if and only if additional_info is  *)
(* the sentinel "false"; the sentinel without a quiz, or a gap text with a *)
(* quiz, is rejected.                                                      *)
C12_ExactlyOneVariant ==
  Accepted =>
    (llm_content[1].quiz # None <=> llm_content[1].additional_info = Some("false"))

(* This execution's generation returned the sentinel "false" or output the *)
(* parser rejects.                                                         *)
Decisive ==
  /\ llm_content # None
  /\ \/ ~Parse(llm_content[1]).ok
     \/ llm_content[1].additional_info = Some("false")

(* C13: when every sub-task resumes and every retrieval loop finishes, a   *)
(* run whose generation step returns the sentinel "false" or unparsable    *)
(* output reaches a terminal step; until then it cycles research then      *)
(* generation.  In the form a finite run decides: after such a generation  *)
(* result the run is at return_quiz or has ended, and is not on its way    *)
(* into another research cycle.                                            *)
C13_DecisiveResultTerminates ==
  Decisive => pc \in {"return_quiz", "END", "raised"}

(* C14: "Ingestion is taking too long!" is raised only when all 5          *)
(* retrieval attempts failed with ingestion in progress: whenever an       *)
(* attempt succeeds, whatever it returns (an empty result set included),   *)
(* the loop stops and the generation call is made with that result.        *)
C14_TooLongOnlyAfterExhaustion ==
  /\ error = Some("Ingestion is taking too long!") =>
       (Len(retrievals) = Retries /\ AllIngesting(retrievals, Retries))
  /\ (retrievals # <<>> /\ Last(retrievals).kind = "ok") =>
       /\ context_data = Some(Last(retrievals).docs)
       /\ pc # "raised" \/ error = Some("return_quiz: no quiz")

RECURSIVE Sum(_)
Sum(s) == IF s = <<>> THEN 0 ELSE s[1] + Sum(Tail(s))

(* The ingestion-in-progress failures among the retrieval calls so far. *)
IngestingCalls == {i \in 1..Len(retrievals) : retrievals[i].kind = "ingesting"}

(* C15: in one execution of create_quiz the time waited in the retry loop  *)
(* never exceeds 25 units (5 attempts x 5 units): a wait of exactly 5      *)
(* units follows every ingestion-in-progress failure, the 5th and last one *)
(* included, and no wait follows a success.                                *)
C15_WaitsBounded ==
  /\ Sum(sleeps) <= Retries * SleepSeconds
  /\ Len(sleeps) = Cardinality(IngestingCalls)
  /\ \A i \in 1..Len(sleeps) : sleeps[i] = SleepSeconds
  /\ no_of_retries = Retries - Cardinality(IngestingCalls) \/ ingests = 0

C15_Witness ==
  /\ ExhaustedRetries
  /\ Len(sleeps) = Retries
  /\ Sum(sleeps) = Retries * SleepSeconds
  /\ pc = "after_loop"

(* Every generation attempt of the run so far has completed and reported a *)
(* gap.                                                                    *)
OnlyGaps == ingests >= 1 /\ gap_reports = ingests /\ parse_failures = 0

(* C16: the sufficiency loop has no iteration cap: for every k, a run in   *)
(* which the generation step reported a gap k times in a row performs k+1  *)
(* researcher invocations and is still not terminated.                     *)
C16_NoIterationCap ==
  OnlyGaps =>
    /\ pc \in {"invoke_researcher", "interrupted", "create_quiz"}
    /\ output = None
    /\ error = None
    /\ state.additional_info # Some("false")
    /\ pc = "invoke_researcher" => invocations = gap_reports
    /\ pc \in {"interrupted", "create_quiz"} => invocations = gap_reports + 1

C16_Witness ==
  /\ OnlyGaps
  /\ gap_reports = 2
  /\ invocations = 3
  /\ pc = "create_quiz"
  /\ state.additional_info = None

IsPrefix(s, t) == Len(s) <= Len(t) /\ SubSeq(t, 1, Len(s)) = s

(* The step that resumes invoke_researcher and completes a researcher cycle. *)
CycleCompletes == pc = "interrupted" /\ pc' = "create_quiz"

C18_QuizPresentAtReturn ==
  /\ pc = "return_quiz" => ("quiz" \in DOMAIN state /\ state.quiz # None)
  /\ Get(state, "quiz") # None => state.additional_info = Some("false")

(* C19: research and generation strictly alternate: every execution of     *)
(* create_quiz is immediately preceded by a researcher sub-task that has   *)
(* resumed since the previous create_quiz, and inside each execution the   *)
(* ingestion is triggered before the first retrieval call, with a fresh    *)
(* budget of 5 retrieval attempts whatever the earlier executions used.    *)
C19_ResearchGenerationAlternate ==
  /\ [](/\ pc = "create_quiz" => (invocations = ingests + 1 /\ outstanding = 0)
        /\ pc \in {"retry_loop", "after_loop"} => invocations = ingests
        /\ ingests <= invocations
        /\ retrievals # <<>> => ingests >= 1)
  /\ [][/\ ingests' # ingests =>
             /\ pc = "create_quiz"
             /\ ingests' = ingests + 1
             /\ invocations = ingests + 1
             /\ no_of_retries' = Retries
             /\ retrievals' = <<>>
             /\ sleeps' = <<>>
        /\ Len(retrievals') > Len(retrievals) =>
             /\ ingests = invocations
             /\ ingests' = ingests
             /\ Len(retrievals) < Retries]_vars

C19_Witness ==
  /\ pc = "retry_loop"
  /\ ingests = 2
  /\ invocations = 2
  /\ no_of_retries = Retries
  /\ retrievals = <<>>
  /\ gap_reports = 1

====
